---- MODULE Spec2Model ----
(***************************************************************************)
(* StockSavvy: the historical-data ingestion and price-change pipeline of  *)
(* app/apps/stocks/tasks.py and app/apps/stocks/utils/task_utils.py.       *)
(*                                                                         *)
(* Dates are day numbers (integers).  The relational tables are modelled   *)
(* as they are stored: Stock as the set of its tickers, Candle as the bag  *)
(* of its rows without the surrogate key id, so that two rows with the     *)
(* same fields are representable (two copies).  A Celery task is a         *)
(* record holding its state in the result backend, whether a message for   *)
(* it is in the broker, and the local variables of its running body;       *)
(* its fields fetched, rev and ignored are history: the time ranges the    *)
(* provider has delivered to it, the price revision of the last candles it *)
(* got, and how many candles of this execution the insert has ignored.     *)
(***************************************************************************)
EXTENDS Integers, Sequences, FiniteSets, Bags, TLC

VARIABLES
    stocks,     \* Stock table: the set of tickers (primary keys) having a row
    stockdata,  \* Stock table: ticker -> the non-key fields of its row
    candles,    \* Candle table: bag of rows [stock, begin, end, open, close]
    pchanges,   \* PriceChange table: bag of rows [stock, vals]
    avail,      \* provider: ticker -> <<from_, till>> served by dates.json
    prov,       \* provider: the revision of the candle prices it serves now
    market,     \* provider: SECID -> record, the securities list it served last
    cache,      \* Django cache: key -> value, None for an absent key
    cmd,        \* manage.py load_stock_data: its arguments and its outcome
    tasks,      \* Celery: task id -> task record
    run         \* the chain built by load_stock_data: its stage and signatures

vars == <<stocks, stockdata, candles, pchanges, avail, prov, market, cache, cmd,
         tasks, run>>

----------------------------------------------------------------------------
(* Bounds of the model and constants of the program *)

\* Python's None for an absent date argument.
NoDate == -1

\* retry_kwargs={'max_retries': 10}
MaxRetries == 10

\* timedelta(days=365): the length of one sub-window of load_candles
ChunkDays == 365

\* date.today() of the run
Today == 800

\* calculate_price_change_per_day / calculate_price_change_per_year
DayWindow == 1

YearWindow == 365

\* how many revisions of a candle's prices the provider may serve
MaxRevisions == 2

Tickers == {"SBER", "GAZP"}

\* the dates the model draws available ranges and requested bounds from
Dates == {0, 300, 400, 800}

DateOpt == Dates \cup {NoDate}

\* the days on which the provider has a daily candle
CandleDays == {400, 765, Today - 1}

\* the range every ticker of the run is served
RunRange == <<765, Today>>

\* A task either never raises, raises in its first execution only, or raises
\* in every execution: the number of leading executions that raise.
FaultPlans == {0, 1, MaxRetries + 1}

ExcKinds == {"RequestException", "ValidationError", "IntegrityError"}

\* the SECIDs the provider's securities list may hold: str.upper() maps
\* "sber" to the ticker "SBER"
ProviderTickers == Tickers \cup {"sber"}

\* the non-key fields of a Stock row, and of a record of the securities list
OldData == [shortname |-> "old", prevprice |-> 100]

NewData == [shortname |-> "new", prevprice |-> 105]

StockData == {OldData, NewData}

\* the SECIDs of the securities lists the provider may serve: none, both
\* tickers, or one of them in lower case
CatalogLists == {{}, {"SBER", "GAZP"}, {"sber", "GAZP"}}

\* the securities lists: distinct SECIDs, each with the record it has now
Catalogs == UNION {[S -> {NewData}] : S \in CatalogLists}

\* no securities list has been served yet
NoMarket == <<>>

\* an option of the command that was not given: None
NoArg == [sep |-> "", y |-> 0, m |-> 0, d |-> 0]

\* the strings given as --start_date / --end_date: year, month and day
\* joined by a separator
DateStrings == [sep : {"-", "."}, y : {2024}, m : {1, 13}, d : {1, 32}]

Args == DateStrings \cup {NoArg}

\* the command has not been invoked
NoCmd == [start |-> NoArg, end |-> NoArg, out |-> "none"]

\* Python's None for a value of the cache: an absent key, or a stored None
None == NoDate

\* LAST_PRICE_KEY and LAST_CANDLE_DATE_KEY, formatted with a ticker
CacheKeys == {"last_price", "last_candle_date"} \X Tickers

\* the cache with no key set
NoCache == [k \in CacheKeys |-> None]

----------------------------------------------------------------------------
(* The provider *)

\* One daily candle of the provider, in revision rev of its prices.
ProviderCandle(day, rev) ==
    [begin |-> day, end |-> day + 1, open |-> 100, close |-> 100 + 5 * rev]

\* ticker_obj.candles(date=start_date, till_date=till_date): the candles of
\* the days in [date, till_date], oldest first.
RECURSIVE CandlesFrom(_, _, _)
CandlesFrom(date, till_date, rev) ==
    LET days == {d \in CandleDays : date <= d /\ d <= till_date}
    IN  IF days = {} THEN <<>>
        ELSE LET first == CHOOSE d \in days : \A e \in days : d <= e
             IN  <<ProviderCandle(first, rev)>> \o CandlesFrom(first + 1, till_date, rev)

----------------------------------------------------------------------------
(* The Candle table *)

\* unique_together = ('stock', 'time_range')
Conflicts(table, row) ==
    \E r \in BagToSet(table) :
        /\ r.stock = row.stock
        /\ r.begin = row.begin
        /\ r.end = row.end

\* A bulk insert that does not look at the unique constraint.
RECURSIVE BulkCreateBlind(_, _)
BulkCreateBlind(table, rows) ==
    IF rows = <<>> THEN table
    ELSE BulkCreateBlind(table (+) SetToBag({Head(rows)}), Tail(rows))

\* A bulk insert that overwrites the stored row on a conflict.
RECURSIVE BulkCreateUpdating(_, _)
BulkCreateUpdating(table, rows) ==
    IF rows = <<>> THEN table
    ELSE LET row == Head(rows)
             kept == {r \in BagToSet(table) :
                        ~(r.stock = row.stock /\ r.begin = row.begin /\ r.end = row.end)}
         IN  BulkCreateUpdating(SetToBag(kept \cup {row}), Tail(rows))

\* Candle.objects.bulk_create(rows, ignore_conflicts=True):
\* INSERT ... ON CONFLICT DO NOTHING, row by row.
RECURSIVE BulkCreate(_, _)
BulkCreate(table, rows) ==
    IF rows = <<>> THEN table
    ELSE BulkCreate(IF Conflicts(table, Head(rows)) THEN table
                    ELSE table (+) SetToBag({Head(rows)}),
                    Tail(rows))

\* [Candle(stock=stock, ..., time_range=DateTimeRange(candle.begin, candle.end))
\*  for candle in candle_objects]
CandleRows(ticker, batch) ==
    [i \in 1..Len(batch) |->
        [stock |-> ticker, begin |-> batch[i].begin, end |-> batch[i].end,
         open |-> batch[i].open, close |-> batch[i].close]]

----------------------------------------------------------------------------
(* Celery's retry machinery *)

\* A signature sent to the broker: .si(...).apply_async() / .delay(...)
NewTask(name, ticker, start_date, end_date, plan) ==
    [name |-> name, ticker |-> ticker, start |-> start_date, end |-> end_date,
     state |-> "PENDING", queued |-> TRUE, retries |-> 0, execs |-> 0,
     plan |-> plan, cur |-> NoDate, till |-> NoDate, created |-> 0,
     exc |-> "none", swallowed |-> "none", win |-> <<NoDate, NoDate>>,
     at |-> "-", vals |-> <<>>, fetched |-> {}, rev |-> 0, ignored |-> 0]

\* A worker takes the task's message and starts its body.
Begin(t) ==
    [t EXCEPT !.state = "STARTED", !.queued = FALSE, !.execs = @ + 1,
              !.cur = NoDate, !.till = NoDate, !.created = 0,
              !.exc = "none", !.swallowed = "none", !.at = "-", !.vals = <<>>,
              !.win = <<NoDate, NoDate>>, !.ignored = 0]

\* An autoretry that gives up one retry early.
AutoRetryEarly(t, exc) ==
    IF t.retries + 1 >= MaxRetries
    THEN [t EXCEPT !.state = "FAILURE", !.exc = exc, !.at = "-"]
    ELSE [t EXCEPT !.state = "RETRY", !.queued = TRUE, !.retries = @ + 1,
                   !.exc = exc, !.at = "-"]

\* An autoretry that retries everything but integrity violations.
AutoRetryNotIntegrity(t, exc) ==
    IF exc = "IntegrityError" \/ t.retries + 1 > MaxRetries
    THEN [t EXCEPT !.state = "FAILURE", !.exc = exc, !.at = "-"]
    ELSE [t EXCEPT !.state = "RETRY", !.queued = TRUE, !.retries = @ + 1,
                   !.exc = exc, !.at = "-"]

\* A handler that logs a ValidationError and goes on without the record.
AutoRetrySkipsInvalid(t, exc) ==
    IF exc = "ValidationError"
    THEN [t EXCEPT !.state = "SUCCESS", !.exc = exc, !.at = "-"]
    ELSE IF t.retries + 1 > MaxRetries
    THEN [t EXCEPT !.state = "FAILURE", !.exc = exc, !.at = "-"]
    ELSE [t EXCEPT !.state = "RETRY", !.queued = TRUE, !.retries = @ + 1,
                   !.exc = exc, !.at = "-"]

\* autoretry_for=(Exception,), retry_kwargs={'max_retries': 10}: an exception
\* leaving the body is turned into task.retry(exc=exc, max_retries=10), which
\* sends the task again with retries + 1 and marks it RETRY, unless
\* retries + 1 > max_retries: then exc is raised and the task is FAILURE.
AutoRetry(t, exc) ==
    IF t.retries + 1 > MaxRetries
    THEN [t EXCEPT !.state = "FAILURE", !.exc = exc, !.at = "-"]
    ELSE [t EXCEPT !.state = "RETRY", !.queued = TRUE, !.retries = @ + 1,
                   !.exc = exc, !.at = "-"]

\* raise Retry(exc=error, when=None): the Retry exception passes through the
\* autoretry wrapper; the worker marks the task RETRY.  No message is sent:
\* only task.retry() sends one.
RaiseRetry(t, exc) ==
    [t EXCEPT !.state = "RETRY", !.exc = exc, !.at = "-"]

\* return from the body
Succeed(t) ==
    [t EXCEPT !.state = "SUCCESS", !.at = "-"]

\* An error handler that lets the exception out instead of logging it.
SwallowRaises(t, where) ==
    [t EXCEPT !.state = "RETRY", !.queued = TRUE, !.retries = @ + 1,
              !.swallowed = where, !.at = "-"]

\* "except ... as error: logger.error(...)" followed by return None in
\* get_available_dates and load_candles: the error is logged, the caller sees
\* no data, and the task returns the candles it has counted.
Swallow(t, where) ==
    Succeed([t EXCEPT !.swallowed = where])

\* the task has ended: it returned, or it raised with its retries used up
Finished(t) == t.state \in {"SUCCESS", "FAILURE"}

\* The current execution is one of those the fault plan makes raise.
Doomed(t) == t.execs <= t.plan

----------------------------------------------------------------------------
(* load_historical_data_for_ticker *)

\* A window whose start, when it is out of range, is set to from_.
EffectiveWindowClamping(from_, till, start_date, end_date) ==
    LET end2 == IF end_date # NoDate /\ from_ < end_date /\ end_date <= till
                THEN end_date ELSE till
        start2 == IF start_date # NoDate /\ from_ <= start_date /\ start_date < end2
                  THEN start_date ELSE from_
    IN  [err |-> FALSE, start |-> start2, end |-> end2]

\* tasks.py:241-255.  err: the branch "elif start_date is not None" compares
\* start_date < end_date with end_date None, a TypeError, once
\* from_ <= start_date holds (the chained comparison short-circuits otherwise).
EffectiveWindow(from_, till, start_date, end_date) ==
    IF start_date # NoDate /\ end_date # NoDate
    THEN LET num_of_days == end_date - start_date
             end2 == IF from_ < end_date /\ end_date <= till THEN end_date ELSE till
             start2 == IF from_ <= start_date /\ start_date < end2
                       THEN start_date ELSE end2 - num_of_days
         IN  [err |-> FALSE, start |-> start2, end |-> end2]
    ELSE IF start_date # NoDate
    THEN IF from_ <= start_date
         THEN [err |-> TRUE, start |-> NoDate, end |-> NoDate]
         ELSE [err |-> FALSE, start |-> from_, end |-> till]
    ELSE IF end_date # NoDate
    THEN [err |-> FALSE, start |-> from_,
          end |-> IF from_ < end_date /\ end_date <= till THEN end_date ELSE till]
    ELSE [err |-> FALSE, start |-> from_, end |-> till]

\* The body up to the first next() of load_candles: Stock.objects.get,
\* get_available_dates (None on any error), the window, Ticker(ticker)
\* (on an error the generator returns and the loop body never runs).
HistStart(id) ==
    /\ id \in DOMAIN tasks
    /\ tasks[id].name = "hist"
    /\ tasks[id].queued
    /\ LET t == Begin(tasks[id])
       IN  IF t.ticker \notin stocks
           THEN tasks' = [tasks EXCEPT ![id] = RaiseRetry(t, "DoesNotExist")]
           ELSE \E dates_ok \in BOOLEAN, ticker_ok \in BOOLEAN :
                  LET w == EffectiveWindow(avail[t.ticker][1], avail[t.ticker][2],
                                           t.start, t.end)
                  IN  tasks' = [tasks EXCEPT ![id] =
                        IF ~dates_ok
                        THEN Swallow(t, "dates")
                        ELSE IF w.err
                        THEN AutoRetry(t, "TypeError")
                        ELSE IF ~ticker_ok
                        THEN Swallow([t EXCEPT !.win = <<w.start, w.end>>], "ticker")
                        ELSE IF w.start >= w.end
                        THEN Succeed([t EXCEPT !.win = <<w.start, w.end>>])
                        ELSE [t EXCEPT !.cur = w.start, !.till = w.end,
                                       !.at = "batch",
                                       !.win = <<w.start, w.end>>]]
    /\ UNCHANGED <<stocks, stockdata, candles, pchanges, avail, market, prov, cache, cmd, run>>

\* A fetch that makes the first request of its window only.
HistBatchOnce(id) ==
    /\ id \in DOMAIN tasks
    /\ tasks[id].name = "hist"
    /\ tasks[id].state = "STARTED"
    /\ tasks[id].at = "batch"
    /\ LET t == tasks[id]
           batch == CandlesFrom(t.cur, t.cur + ChunkDays, prov)
       IN  /\ candles' = BulkCreate(candles, CandleRows(t.ticker, batch))
           /\ tasks' = [tasks EXCEPT ![id] =
                 Succeed([t EXCEPT !.created = @ + Len(batch),
                                   !.cur = @ + ChunkDays])]
    /\ UNCHANGED <<stocks, stockdata, pchanges, avail, market, prov, cache, cmd, run>>

\* One turn of "for candle_objects in load_candles(...)": the request for
\* [start_date, start_date + 365], the Candle objects, the bulk insert, and
\* the generator's step to the next sub-window (or its end, and the return).
HistBatch(id) ==
    /\ id \in DOMAIN tasks
    /\ tasks[id].name = "hist"
    /\ tasks[id].state = "STARTED"
    /\ tasks[id].at = "batch"
    /\ LET t == tasks[id]
           till_date == t.cur + ChunkDays
       IN  \/ \* an exception while the batch is consumed, built or inserted:
              \* logged and re-raised by the task (tasks.py:274-283)
              /\ Doomed(t)
              /\ \E exc \in ExcKinds :
                    tasks' = [tasks EXCEPT ![id] = AutoRetry(t, exc)]
              /\ UNCHANGED candles
           \/ \* an exception inside load_candles: logged, the generator returns
              \* (task_utils.py:99-104), the task returns what it has counted
              /\ tasks' = [tasks EXCEPT ![id] = Swallow(t, "candles")]
              /\ UNCHANGED candles
           \/ /\ ~Doomed(t) \/ till_date < t.till
              /\  LET batch == CandlesFrom(t.cur, till_date, prov)
                        stored == BulkCreate(candles, CandleRows(t.ticker, batch))
                        t2 == [t EXCEPT !.created = @ + Len(batch),
                                        !.ignored = @ + Len(batch)
                                            - (BagCardinality(stored)
                                               - BagCardinality(candles)),
                                        !.cur = till_date,
                                        !.rev = IF batch = <<>> THEN @ ELSE prov,
                                        !.fetched = @ \cup
                                            {<<batch[i].begin, batch[i].end>> :
                                                i \in 1..Len(batch)}]
                    IN  /\ candles' = stored
                        /\ tasks' = [tasks EXCEPT ![id] =
                              IF till_date < t.till THEN t2 ELSE Succeed(t2)]
    /\ UNCHANGED <<stocks, stockdata, pchanges, avail, market, prov, cache, cmd, run>>

\* The provider revises the prices of the candles it serves.
ProviderRevise ==
    /\ prov < MaxRevisions
    /\ prov' = prov + 1
    /\ UNCHANGED <<stocks, stockdata, candles, pchanges, avail, market, cache, cmd, tasks, run>>

----------------------------------------------------------------------------
(* Direct invocations of the per-ticker task:                               *)
(* load_historical_data_for_ticker.delay(ticker, start_date, end_date)      *)

NoRun == [stage |-> "none", hist |-> {}, pc |-> {}, update |-> FALSE]

Ranges == {r \in Dates \X Dates : r[1] <= r[2]}

\* the valid requests: each bound absent or a date, start before end
Requests == {q \in DateOpt \X DateOpt :
                q[1] # NoDate /\ q[2] # NoDate => q[1] < q[2]}

NextTicker ==
    \/ \E id \in DOMAIN tasks : HistStart(id)
    \/ \E id \in DOMAIN tasks : HistBatch(id)
    \/ ProviderRevise

\* one invocation, for any available range, request and fault plan, of a
\* ticker that has a Stock row or has none
InitWindow ==
    /\ stocks \in SUBSET {"SBER"}
    /\ candles = EmptyBag
    /\ pchanges = EmptyBag
    /\ prov = 1
    /\ cache = NoCache
    /\ cmd = NoCmd
    /\ stockdata = [tk \in stocks |-> OldData]
    /\ market = NoMarket
    /\ \E r \in Ranges : avail = [t \in Tickers |-> r]
    /\ \E q \in Requests, p \in FaultPlans :
          tasks = (<<"hist", "1">> :> NewTask("hist", "SBER", q[1], q[2], p))
    /\ run = NoRun

SpecWindow == InitWindow /\ [][NextTicker]_vars

\* a worker that has a step to take takes one
SpecWindowFair == SpecWindow /\ WF_vars(NextTicker)

\* two concurrent invocations for the same ticker
InitTicker ==
    /\ stocks = {"SBER"}
    /\ candles = EmptyBag
    /\ pchanges = EmptyBag
    /\ prov = 1
    /\ cache = NoCache
    /\ cmd = NoCmd
    /\ stockdata = [tk \in stocks |-> OldData]
    /\ market = NoMarket
    /\ \E r \in Ranges : avail = [t \in Tickers |-> r]
    /\ \E q \in Requests, p \in {0, 1} :
          tasks = (<<"hist", "1">> :> NewTask("hist", "SBER", q[1], q[2], p))
                  @@ (<<"hist", "2">> :> NewTask("hist", "SBER", NoDate, NoDate, 0))
    /\ run = NoRun

SpecTicker == InitTicker /\ [][NextTicker]_vars

----------------------------------------------------------------------------
(* calculate_price_change and load_price_changes_for_ticker *)

\* stock.candles.filter(time_range__overlap=[lo, hi]): the rows of the ticker
\* whose half-open range [begin, end) meets [lo, hi)
Overlapping(table, ticker, lo, hi) ==
    {r \in BagToSet(table) : r.stock = ticker /\ r.begin < hi /\ lo < r.end}

\* A calculation that divides by the opening price without looking at it.
CalculatePriceChangeUnguarded(table, ticker, days) ==
    LET rows == Overlapping(table, ticker, Today - days - 1, Today + 1)
    IN  IF rows = {} THEN <<0, <<0, 1>>>>
        ELSE LET first == CHOOSE r \in rows : \A q \in rows : r.begin <= q.begin
                 last == CHOOSE r \in rows : \A q \in rows : q.begin <= r.begin
             IN  <<last.close - first.open,
                   <<(last.close - first.open) * 100, first.open>>>>

\* task_utils.py:112-142.  The percentage is the exact quotient
\* <<numerator, denominator>>; (0, 0) is <<0, <<0, 1>>>>.
CalculatePriceChange(table, ticker, days) ==
    LET tz_now == Today
        last_days == tz_now - days
        rows == Overlapping(table, ticker, last_days - 1, tz_now + 1)
    IN  IF rows = {} THEN <<0, <<0, 1>>>>
        ELSE LET first == CHOOSE r \in rows : \A q \in rows : r.begin <= q.begin
                 last == CHOOSE r \in rows : \A q \in rows : q.begin <= r.begin
                 price_change == last.close - first.open
             IN  IF first.open # 0
                 THEN <<price_change, <<price_change * 100, first.open>>>>
                 ELSE <<0, <<0, 1>>>>

\* A creation that does not look for the stock's row first.
GetOrCreateBlind(table, ticker) ==
    table (+) SetToBag({[stock |-> ticker,
                         vals |-> <<<<0, <<0, 1>>>>, <<0, <<0, 1>>>>>>]})

\* PriceChange.objects.get_or_create(stock=stock, defaults={... 0 ...})
GetOrCreate(table, ticker) ==
    IF \E r \in BagToSet(table) : r.stock = ticker
    THEN table
    ELSE table (+) SetToBag({[stock |-> ticker,
                              vals |-> <<<<0, <<0, 1>>>>, <<0, <<0, 1>>>>>>]})

\* price_change.save(): UPDATE ... WHERE stock_id = ticker, an INSERT when
\* no row was updated
SavePriceChange(table, ticker, vals) ==
    LET others == {r \in BagToSet(table) : r.stock # ticker}
        mine == {r \in BagToSet(table) : r.stock = ticker}
        n == IF mine = {} THEN 1
             ELSE BagCardinality([r \in mine |-> CopiesIn(r, table)])
        row == [stock |-> ticker, vals |-> vals]
    IN  [r \in others \cup {row} |-> IF r = row THEN n ELSE CopiesIn(r, table)]

\* tasks.py:324-345: the Stock row, both calculations, get_or_create
PCStart(id) ==
    /\ id \in DOMAIN tasks
    /\ tasks[id].name = "pc"
    /\ tasks[id].queued
    /\ LET t == Begin(tasks[id])
       IN  IF t.ticker \notin stocks
           THEN /\ tasks' = [tasks EXCEPT ![id] = RaiseRetry(t, "DoesNotExist")]
                /\ UNCHANGED pchanges
           ELSE IF Doomed(t)
           THEN /\ \E exc \in ExcKinds :
                      tasks' = [tasks EXCEPT ![id] = AutoRetry(t, exc)]
                /\ UNCHANGED pchanges
           ELSE /\ tasks' = [tasks EXCEPT ![id] =
                      [t EXCEPT !.at = "save",
                                !.vals = <<CalculatePriceChange(candles, t.ticker, DayWindow),
                                           CalculatePriceChange(candles, t.ticker, YearWindow)>>]]
                /\ pchanges' = GetOrCreate(pchanges, t.ticker)
    /\ UNCHANGED <<stocks, stockdata, candles, avail, market, prov, cache, cmd, run>>

\* tasks.py:347-357: the four assignments, save(), and the return
PCSave(id) ==
    /\ id \in DOMAIN tasks
    /\ tasks[id].name = "pc"
    /\ tasks[id].state = "STARTED"
    /\ tasks[id].at = "save"
    /\ pchanges' = SavePriceChange(pchanges, tasks[id].ticker, tasks[id].vals)
    /\ tasks' = [tasks EXCEPT ![id] = Succeed(tasks[id])]
    /\ UNCHANGED <<stocks, stockdata, candles, avail, market, prov, cache, cmd, run>>

\* the candles a Candle table may hold before the tasks run: for each day
\* at most one, some with an opening price of 0
StoredRows ==
    {[stock |-> "SBER", begin |-> 765, end |-> 766, open |-> 0, close |-> 105],
     [stock |-> "SBER", begin |-> 765, end |-> 766, open |-> 100, close |-> 105],
     [stock |-> "SBER", begin |-> 798, end |-> 799, open |-> 100, close |-> 95],
     [stock |-> "SBER", begin |-> 799, end |-> 800, open |-> 100, close |-> 105],
     [stock |-> "SBER", begin |-> 799, end |-> 800, open |-> 0, close |-> 95]}

StoredTables ==
    {SetToBag(rs) : rs \in {x \in SUBSET StoredRows :
                               \A r \in x, q \in x : r.begin = q.begin => r = q}}

NextPrice ==
    \/ \E id \in DOMAIN tasks : HistStart(id)
    \/ \E id \in DOMAIN tasks : HistBatch(id)
    \/ \E id \in DOMAIN tasks : PCStart(id)
    \/ \E id \in DOMAIN tasks : PCSave(id)

\* load_price_changes_for_ticker.delay(ticker), twice, beside a historical
\* fetch of the same ticker
InitPrice ==
    /\ stocks = {"SBER"}
    /\ candles \in StoredTables
    /\ pchanges = EmptyBag
    /\ prov = 1
    /\ cache = NoCache
    /\ cmd = NoCmd
    /\ stockdata = [tk \in stocks |-> OldData]
    /\ market = NoMarket
    /\ avail = [t \in Tickers |-> RunRange]
    /\ \E p \in {0, 1} :
          tasks = (<<"hist", "1">> :> NewTask("hist", "SBER", NoDate, NoDate, 0))
                  @@ (<<"pc", "1">> :> NewTask("pc", "SBER", NoDate, NoDate, p))
                  @@ (<<"pc", "2">> :> NewTask("pc", "SBER", NoDate, NoDate, 0))
    /\ run = NoRun

SpecPrice == InitPrice /\ [][NextPrice]_vars

----------------------------------------------------------------------------
(* The cached reads of Stock: get_last_price and get_last_candle_date *)

\* self.candles.first() under Meta.ordering = ('-time_range',): the rows of
\* the ticker, and among them the one with the greatest time_range
CandlesOf(table, ticker) == {r \in BagToSet(table) : r.stock = ticker}

\* the row an ascending ordering would put first
OldestCandle(table, ticker) ==
    CHOOSE r \in CandlesOf(table, ticker) :
        \A q \in CandlesOf(table, ticker) :
            r.begin < q.begin \/ (q.begin = r.begin /\ r.end <= q.end)

LastCandle(table, ticker) ==
    CHOOSE r \in CandlesOf(table, ticker) :
        \A q \in CandlesOf(table, ticker) :
            q.begin < r.begin \/ (q.begin = r.begin /\ q.end <= r.end)

\* first_candle.close if first_candle else None
LastPrice(table, ticker) ==
    IF CandlesOf(table, ticker) = {} THEN None
    ELSE LastCandle(table, ticker).close

\* first_candle.time_range.upper if first_candle else None
LastCandleDate(table, ticker) ==
    IF CandlesOf(table, ticker) = {} THEN None
    ELSE LastCandle(table, ticker).end

\* What the two reads compute from the Candle table.
Derived(key) ==
    IF key[1] = "last_price" THEN LastPrice(candles, key[2])
    ELSE LastCandleDate(candles, key[2])

\* The value get_last_price / get_last_candle_date returns now: the cached
\* one unless it is None.
ReadValue(key) ==
    IF cache[key] # None THEN cache[key] ELSE Derived(key)

\* models.py:292-326: a read that misses the cache stores what it computed,
\* cache.set(cache_key, value, timeout=DEFAULT_TIMEOUT)
CachedRead(key) ==
    /\ key[2] \in stocks
    /\ cache[key] = None
    /\ cache' = [cache EXCEPT ![key] = Derived(key)]
    /\ UNCHANGED <<stocks, stockdata, candles, pchanges, avail, market, prov, cmd, tasks, run>>

\* timeout=DEFAULT_TIMEOUT: the key expires a day after it was set
CacheExpire(key) ==
    /\ cache[key] # None
    /\ cache' = [cache EXCEPT ![key] = None]
    /\ UNCHANGED <<stocks, stockdata, candles, pchanges, avail, market, prov, cmd, tasks, run>>

NextCache ==
    \/ \E id \in DOMAIN tasks : HistStart(id)
    \/ \E id \in DOMAIN tasks : HistBatch(id)
    \/ ProviderRevise
    \/ \E key \in CacheKeys : CachedRead(key)
    \/ \E key \in CacheKeys : CacheExpire(key)

\* one invocation for a ticker whose pages are being read
InitCache ==
    /\ stocks = {"SBER"}
    /\ candles = EmptyBag
    /\ pchanges = EmptyBag
    /\ prov = 1
    /\ cache = NoCache
    /\ cmd = NoCmd
    /\ stockdata = [tk \in stocks |-> OldData]
    /\ market = NoMarket
    /\ \E r \in Ranges : avail = [t \in Tickers |-> r]
    /\ \E q \in Requests :
          tasks = (<<"hist", "1">> :> NewTask("hist", "SBER", q[1], q[2], 0))
    /\ run = NoRun

SpecCache == InitCache /\ [][NextCache]_vars

----------------------------------------------------------------------------
(* load_stock_data: the chain                                              *)
(*   load_available_stocks.si() | group(hist) | group(pc) | log.si()       *)
(* Celery turns a group followed by a task into a chord: the body is sent  *)
(* when every task of the header has succeeded; when one has failed the    *)
(* body is never sent (ChordError).  A task of a chain is sent when the    *)
(* task before it has succeeded.                                           *)

AvailId == <<"avail", "-">>

LogId == <<"log", "-">>

GroupIds(name, tickers) == {<<name, tk>> : tk \in tickers}

\* A header that counts as done with its first success.
HeaderDoneAny(ids) ==
    /\ ids \subseteq DOMAIN tasks
    /\ ids # {} => \E id \in ids : tasks[id].state = "SUCCESS"

\* the chord's header has succeeded: every task of the group has
HeaderDone(ids) ==
    /\ ids \subseteq DOMAIN tasks
    /\ \A id \in ids : tasks[id].state = "SUCCESS"

\* the chord's header has failed: every task has finished, one in FAILURE
HeaderFailed(ids) ==
    /\ ids \subseteq DOMAIN tasks
    /\ \A id \in ids : Finished(tasks[id])
    /\ \E id \in ids : tasks[id].state = "FAILURE"

\* load_historical_data() and load_price_changes() are called while the
\* chain is built, tasks.py:65-66: Stock.objects.all() is read then, before
\* load_available_stocks has run.
GroupTickers(snapshot, table) == snapshot

\* What the chain keeps of a task of a completed stage: the chord has
\* consumed the header's results, and .si() bodies take none of them.
Archived(t) ==
    IF Finished(t)
    THEN [NewTask(t.name, t.ticker, t.start, t.end, 0)
            EXCEPT !.state = t.state, !.queued = FALSE]
    ELSE t

\* load_latest_historical_data(days=1): (today - 1, today);
\* load_historical_data(): (None, None)
HistArgs(update) ==
    IF update THEN <<Today - 1, Today>> ELSE <<NoDate, NoDate>>

\* tasks.py:43-68
LoadStockData(update) ==
    /\ run.stage = "none"
    /\ run' = [stage |-> "avail", hist |-> stocks, pc |-> stocks, update |-> update]
    /\ \E plan \in FaultPlans :
          tasks' = (AvailId :> NewTask("avail", "-", NoDate, NoDate, plan)) @@ tasks
    /\ UNCHANGED <<stocks, stockdata, candles, pchanges, avail, market, prov, cache, cmd>>

\* A bulk insert that leaves the stored row alone on a conflict.
BulkUpsertIgnoring(table, catalog) ==
    [tk \in DOMAIN table \cup DOMAIN catalog |->
        IF tk \in DOMAIN table THEN table[tk] ELSE catalog[tk]]

\* Stock.objects.bulk_create(stock_objects, update_conflicts=True,
\* unique_fields=['ticker'], update_fields=[every non-key field]):
\* INSERT ... ON CONFLICT (ticker) DO UPDATE.  The ticker is stored as the
\* record's SECID has it: bulk_create does not call Stock.save().
BulkUpsert(table, catalog) ==
    [tk \in DOMAIN table \cup DOMAIN catalog |->
        IF tk \in DOMAIN catalog THEN catalog[tk] ELSE table[tk]]

\* tasks.py:71-155: Market('stocks').tickers(), the Stock objects, and the
\* bulk upsert keyed on ticker
LoadAvailableStocks ==
    /\ AvailId \in DOMAIN tasks
    /\ tasks[AvailId].queued
    /\ LET t == Begin(tasks[AvailId])
       IN  IF Doomed(t)
           THEN /\ \E exc \in ExcKinds :
                      tasks' = [tasks EXCEPT ![AvailId] = AutoRetry(t, exc)]
                /\ UNCHANGED <<stocks, stockdata, market>>
           ELSE /\ market' \in Catalogs
                /\ stockdata' = BulkUpsert(stockdata, market')
                /\ stocks' = DOMAIN stockdata'
                /\ tasks' = [tasks EXCEPT ![AvailId] = Succeed(t)]
    /\ UNCHANGED <<candles, pchanges, avail, prov, cache, cmd, run>>

\* the chain's second link: the group of load_historical_data_for_ticker
StartHistorical ==
    /\ run.stage = "avail"
    /\ tasks[AvailId].state = "SUCCESS"
    /\ LET tickers == GroupTickers(run.hist, stocks)
           args == HistArgs(run.update)
       IN  /\ \E plans \in [tickers -> FaultPlans] :
                 tasks' = [id \in GroupIds("hist", tickers) |->
                              NewTask("hist", id[2], args[1], args[2], plans[id[2]])]
                          @@ [id \in DOMAIN tasks |-> Archived(tasks[id])]
           /\ run' = [run EXCEPT !.stage = "hist", !.hist = tickers]
    /\ UNCHANGED <<stocks, stockdata, candles, pchanges, avail, market, prov, cache, cmd>>

\* the chord's body: the group of load_price_changes_for_ticker
StartPriceChanges ==
    /\ run.stage = "hist"
    /\ HeaderDone(GroupIds("hist", run.hist))
    /\ LET tickers == GroupTickers(run.pc, stocks)
       IN  /\ \E plans \in [tickers -> FaultPlans] :
                 tasks' = [id \in GroupIds("pc", tickers) |->
                              NewTask("pc", id[2], NoDate, NoDate, plans[id[2]])]
                          @@ [id \in DOMAIN tasks |-> Archived(tasks[id])]
           /\ run' = [run EXCEPT !.stage = "pc", !.pc = tickers]
    /\ UNCHANGED <<stocks, stockdata, candles, pchanges, avail, market, prov, cache, cmd>>

\* the second chord's body: _log_execution_time.si(...)
StartLog ==
    /\ run.stage = "pc"
    /\ HeaderDone(GroupIds("pc", run.pc))
    /\ tasks' = (LogId :> NewTask("log", "-", NoDate, NoDate, 0))
                @@ [id \in DOMAIN tasks |-> Archived(tasks[id])]
    /\ run' = [run EXCEPT !.stage = "log"]
    /\ UNCHANGED <<stocks, stockdata, candles, pchanges, avail, market, prov, cache, cmd>>

\* tasks.py:25-40
LogExecutionTime ==
    /\ LogId \in DOMAIN tasks
    /\ tasks[LogId].queued
    /\ tasks' = [tasks EXCEPT ![LogId] = Succeed(Begin(tasks[LogId]))]
    /\ run' = [run EXCEPT !.stage = "done"]
    /\ UNCHANGED <<stocks, stockdata, candles, pchanges, avail, market, prov, cache, cmd>>

\* A failed link or header: the rest of the chain is never sent.
ChainError ==
    /\ \/ run.stage = "avail" /\ tasks[AvailId].state = "FAILURE"
       \/ run.stage = "hist" /\ HeaderFailed(GroupIds("hist", run.hist))
       \/ run.stage = "pc" /\ HeaderFailed(GroupIds("pc", run.pc))
    /\ run' = [run EXCEPT !.stage = "aborted"]
    /\ UNCHANGED <<stocks, stockdata, candles, pchanges, avail, market, prov, cache, cmd, tasks>>

Init ==
    /\ stocks \in SUBSET Tickers
    /\ candles = EmptyBag
    /\ pchanges = EmptyBag
    /\ prov = 1
    /\ cache = NoCache
    /\ cmd = NoCmd
    /\ stockdata = [tk \in stocks |-> OldData]
    /\ market = NoMarket
    /\ avail = [t \in Tickers |-> RunRange]
    /\ tasks = <<>>
    /\ run = NoRun

Next ==
    \/ \E update \in BOOLEAN : LoadStockData(update)
    \/ LoadAvailableStocks
    \/ StartHistorical
    \/ \E id \in DOMAIN tasks : HistStart(id)
    \/ \E id \in DOMAIN tasks : HistBatch(id)
    \/ StartPriceChanges
    \/ \E id \in DOMAIN tasks : PCStart(id)
    \/ \E id \in DOMAIN tasks : PCSave(id)
    \/ StartLog
    \/ LogExecutionTime
    \/ ChainError

Spec == Init /\ [][Next]_vars

----------------------------------------------------------------------------
(* The Stock table: catalog refreshes and saves *)

\* self.ticker.upper()
Upper(ticker) == IF ticker = "sber" THEN "SBER" ELSE ticker

\* models.py:221-224, Stock.save() of a form of the admin site: the ticker
\* is upper-cased, then UPDATE ... WHERE ticker = it, an INSERT when no row
\* was updated
StockSave(ticker, data) ==
    /\ stockdata' = [tk \in stocks \cup {Upper(ticker)} |->
                        IF tk = Upper(ticker) THEN data ELSE stockdata[tk]]
    /\ stocks' = DOMAIN stockdata'
    /\ UNCHANGED <<candles, pchanges, avail, market, prov, cache, cmd, tasks, run>>

\* load_available_stocks is sent again, by the next run
LoadAvailableStocksAgain ==
    /\ AvailId \in DOMAIN tasks
    /\ Finished(tasks[AvailId])
    /\ tasks' = [tasks EXCEPT ![AvailId] = NewTask("avail", "-", NoDate, NoDate, 0)]
    /\ UNCHANGED <<stocks, stockdata, candles, pchanges, avail, market, prov, cache, cmd, run>>

NextCatalog ==
    \/ LoadAvailableStocks
    \/ LoadAvailableStocksAgain
    \/ \E ticker \in ProviderTickers, data \in StockData : StockSave(ticker, data)

InitCatalog ==
    /\ stocks \in SUBSET Tickers
    /\ candles = EmptyBag
    /\ pchanges = EmptyBag
    /\ prov = 1
    /\ cache = NoCache
    /\ cmd = NoCmd
    /\ stockdata = [tk \in stocks |-> OldData]
    /\ market = NoMarket
    /\ avail = [t \in Tickers |-> RunRange]
    /\ \E plan \in FaultPlans :
          tasks = (AvailId :> NewTask("avail", "-", NoDate, NoDate, plan))
    /\ run = NoRun

SpecCatalog == InitCatalog /\ [][NextCatalog]_vars

----------------------------------------------------------------------------
(* manage.py load_stock_data --start_date S --end_date E *)

DaysInMonth(y, m) ==
    IF m \in {4, 6, 9, 11} THEN 30
    ELSE IF m # 2 THEN 31
    ELSE IF y % 4 = 0 /\ (y % 100 # 0 \/ y % 400 = 0) THEN 29 ELSE 28

\* A format check that accepts every string.
ValidDateLenient(s) == TRUE

\* datetime.strptime(s, '%Y-%m-%d') does not raise ValueError
ValidDate(s) ==
    /\ s.sep = "-"
    /\ s.m \in 1..12
    /\ s.d \in 1..DaysInMonth(s.y, s.m)

\* load_stock_data.py:22-38.  An option that was given is parsed; on a
\* ValueError the error is written and the command returns.  Otherwise it
\* calls load_stock_data.delay(start_date=..., end_date=...): the task is
\* load_stock_data(update=False), the call does not fit its signature and
\* ends in a TypeError; no run is started.
CommandHandle(start_date, end_date) ==
    /\ cmd.out = "none"
    /\ cmd' = [start |-> start_date, end |-> end_date,
               out |-> IF \/ start_date # NoArg /\ ~ValidDate(start_date)
                          \/ end_date # NoArg /\ ~ValidDate(end_date)
                       THEN "format error"
                       ELSE "TypeError"]
    /\ UNCHANGED <<stocks, stockdata, candles, pchanges, avail, market, prov, cache,
                   tasks, run>>

NextCommand == \E start_date \in Args, end_date \in Args :
                  CommandHandle(start_date, end_date)

SpecCommand == Init /\ [][NextCommand]_vars

----------------------------------------------------------------------------
(* The candle insert: idempotence and uniqueness *)

HistIds == {id \in DOMAIN tasks : tasks[id].name = "hist"}

\* every batch of rows a sub-window request of a ticker can deliver
Batches ==
    {CandleRows(tk, CandlesFrom(d, d + ChunkDays, rev)) :
        tk \in Tickers, d \in Dates \cup CandleDays, rev \in 1..MaxRevisions}

\* C1: inserting the same candle batch a second time leaves the Candle table,
\* its rows and their number, as the first insert left it.
C1_InsertIdempotent ==
    \A rows \in Batches :
        LET once == BulkCreate(candles, rows)
            twice == BulkCreate(once, rows)
        IN  /\ twice = once
            /\ BagCardinality(twice) = BagCardinality(once)

\* both invocations have inserted the same two sub-windows without an error,
\* and the table holds each candle once
C1_Witness ==
    /\ \A id \in HistIds :
          /\ tasks[id].state = "SUCCESS"
          /\ tasks[id].swallowed = "none"
          /\ tasks[id].created = 4
          /\ tasks[id].execs = 1
    /\ Cardinality(HistIds) = 2
    /\ BagCardinality(candles) = Cardinality(CandleDays)

\* the (stock, time_range) pairs the invocations have been delivered
FetchedPairs ==
    UNION {{<<tasks[id].ticker, tr>> : tr \in tasks[id].fetched} : id \in HistIds}

\* C2: under every interleaving of the batch inserts of two invocations for
\* one ticker, no two Candle rows share (stock, time_range), and once both
\* have completed the table holds one row per distinct pair fetched.
C2_NoDuplicateCandles ==
    /\ \A r \in BagToSet(candles) :
          /\ CopiesIn(r, candles) = 1
          /\ \A r2 \in BagToSet(candles) :
                (r2.stock = r.stock /\ r2.begin = r.begin /\ r2.end = r.end)
                    => r2 = r
    /\ (\A id \in HistIds : Finished(tasks[id]))
          => BagCardinality(candles) = Cardinality(FetchedPairs)

\* both invocations completed after interleaved inserts of overlapping
\* windows, the provider having served two revisions of a candle
C2_Witness ==
    /\ Cardinality(HistIds) = 2
    /\ \A id \in HistIds : tasks[id].state = "SUCCESS" /\ tasks[id].created >= 2
    /\ tasks[<<"hist", "1">>].fetched # tasks[<<"hist", "2">>].fetched
    /\ tasks[<<"hist", "1">>].fetched \cap tasks[<<"hist", "2">>].fetched # {}
    /\ \E r1 \in BagToSet(candles), r2 \in BagToSet(candles) : r1.close # r2.close

----------------------------------------------------------------------------
(* The window *)

\* C3: the window computed before fetching lies in the available range:
\* from_ <= effective_start < effective_end <= till.
C3_WindowWithinRange ==
    \A id \in HistIds :
        LET t == tasks[id]
        IN  (t.win # <<NoDate, NoDate>> /\ avail[t.ticker][1] < avail[t.ticker][2])
                => /\ avail[t.ticker][1] <= t.win[1]
                   /\ t.win[1] < t.win[2]
                   /\ t.win[2] <= avail[t.ticker][2]

----------------------------------------------------------------------------
(* The stages of a run *)

IdsOf(name) == {id \in DOMAIN tasks : tasks[id].name = name}

\* C4: the stages are barriers.  No historical fetch has started unless
\* load_available_stocks has succeeded; no price-change task has started
\* unless every historical fetch of the run has finished; the completion log
\* has not been sent unless every price-change task has finished.
C4_StageBarriers ==
    /\ \A id \in IdsOf("hist") :
          tasks[id].execs > 0 => tasks[AvailId].state = "SUCCESS"
    /\ \A id \in IdsOf("pc") :
          tasks[id].execs > 0 =>
              \A h \in GroupIds("hist", run.hist) :
                  h \in DOMAIN tasks /\ Finished(tasks[h])
    /\ LogId \in DOMAIN tasks =>
          \A q \in GroupIds("pc", run.pc) :
              q \in DOMAIN tasks /\ Finished(tasks[q])

\* the price-change tasks of two tickers run side by side, after the
\* historical fetches of both have finished
C4_Witness ==
    /\ run.stage = "pc"
    /\ Cardinality(run.hist) = 2
    /\ Cardinality(IdsOf("pc")) = 2
    /\ \A id \in IdsOf("pc") : tasks[id].state = "STARTED"
    /\ \A id \in IdsOf("hist") : tasks[id].state = "SUCCESS"

\* C5: a historical fetch that has failed for good does not abort the run.
C5_FailureDoesNotAbort ==
    (\E id \in IdsOf("hist") : tasks[id].state = "FAILURE")
        => run.stage # "aborted"

\* C6: the tickers of the fan-out are those of the Stock table after the
\* run's catalog refresh.
C6_FanOutAfterRefresh ==
    /\ run.stage \in {"hist", "pc", "log", "done"} => run.hist = stocks
    /\ run.stage \in {"pc", "log", "done"} => run.pc = stocks

----------------------------------------------------------------------------
(* Retries *)

Retried == {"avail", "hist", "pc"}

\* C7 as stated: a task is executed at most 10 times.
C7_AtMostTenExecutions ==
    \A id \in DOMAIN tasks :
        tasks[id].name \in Retried => tasks[id].execs <= 10

\* C7, amended: a task is executed at most 11 times, once and then for each
\* of its 10 retries, and it is marked failed exactly when an execution
\* raises with the 10 retries used up.
C7_BoundedRetries ==
    \A id \in DOMAIN tasks :
        tasks[id].name \in Retried =>
            /\ tasks[id].execs <= MaxRetries + 1
            /\ tasks[id].retries <= MaxRetries
            /\ tasks[id].state = "FAILURE" =>
                  /\ tasks[id].execs = MaxRetries + 1
                  /\ tasks[id].retries = MaxRetries
                  /\ ~tasks[id].queued

\* a historical fetch whose every execution raised is marked failed after
\* its 11th execution
C7_Witness ==
    \E id \in IdsOf("hist") :
        /\ tasks[id].state = "FAILURE"
        /\ tasks[id].execs = 11
        /\ tasks[id].exc = "RequestException"

\* C8 as stated: an IntegrityError fails the task at once, without a retry.
C8_IntegrityErrorNotRetried ==
    \A id \in IdsOf("avail") \cup IdsOf("hist") :
        tasks[id].exc = "IntegrityError" =>
            /\ tasks[id].state = "FAILURE"
            /\ ~tasks[id].queued

\* C8, amended: an IntegrityError is re-raised like any other exception, so
\* the task is sent again while it has retries left and fails only with
\* its 10 retries used up.
C8_IntegrityErrorRetried ==
    \A id \in IdsOf("avail") \cup IdsOf("hist") :
        tasks[id].exc = "IntegrityError" =>
            \/ /\ tasks[id].state = "RETRY"
               /\ tasks[id].queued
               /\ tasks[id].retries \in 1..MaxRetries
            \/ /\ tasks[id].state = "FAILURE"
               /\ tasks[id].retries = MaxRetries

\* the bulk upsert of load_available_stocks raised an IntegrityError and the
\* task is in the broker again
C8_Witness ==
    /\ AvailId \in DOMAIN tasks
    /\ tasks[AvailId].exc = "IntegrityError"
    /\ tasks[AvailId].state = "RETRY"
    /\ tasks[AvailId].queued
    /\ tasks[AvailId].execs = 1

\* C9: a per-ticker task that found no Stock row is not failed while it has
\* retries left and will be executed again: its message is in the broker.
C9_MissingStockRetried ==
    \A id \in DOMAIN tasks :
        tasks[id].exc = "DoesNotExist" =>
            \/ tasks[id].state = "RETRY" /\ tasks[id].queued
            \/ tasks[id].state = "FAILURE" /\ tasks[id].retries = MaxRetries

\* C10 as stated: an upstream error never ends a historical fetch as a
\* success.
C10_UpstreamErrorNeverSuccess ==
    \A id \in IdsOf("hist") :
        ~(tasks[id].state = "SUCCESS" /\ tasks[id].swallowed # "none")

\* C10, amended: an error raised while a candle batch is consumed sends the
\* task to a retry, or fails it with the retries used up; an error of the
\* available-dates request, of the ticker lookup or inside load_candles is
\* logged and ends the task as a success.
C10_UpstreamErrorHandling ==
    \A id \in IdsOf("hist") :
        /\ tasks[id].exc = "RequestException" =>
              \/ tasks[id].state = "RETRY" /\ tasks[id].queued
              \/ tasks[id].state = "FAILURE" /\ tasks[id].retries = MaxRetries
        /\ tasks[id].swallowed # "none" =>
              /\ tasks[id].state = "SUCCESS"
              /\ tasks[id].exc = "none"

\* a candle request failed under the task's hands after one sub-window was
\* stored, and the task waits for its retry
C10_Witness ==
    \E id \in IdsOf("hist") :
        /\ tasks[id].exc = "RequestException"
        /\ tasks[id].state = "RETRY"
        /\ tasks[id].queued
        /\ tasks[id].created > 0

----------------------------------------------------------------------------
(* No available dates *)

\* C11: when get_available_dates returns None the task computes no window,
\* requests no candles, writes no Candle row, returns 0 and ends as a
\* success: it is neither failed nor sent again.
C11_NoDatesZeroWork ==
    /\ [](\A id \in HistIds :
            tasks[id].swallowed = "dates" =>
                /\ tasks[id].state = "SUCCESS"
                /\ ~tasks[id].queued
                /\ tasks[id].exc = "none"
                /\ tasks[id].created = 0
                /\ tasks[id].win = <<NoDate, NoDate>>
                /\ tasks[id].cur = NoDate)
    /\ [][\A id \in HistIds :
            (tasks'[id].swallowed = "dates" /\ tasks'[id].execs # tasks[id].execs)
                => /\ candles' = candles
                   /\ tasks'[id].fetched = tasks[id].fetched
                   /\ tasks'[id].retries = tasks[id].retries]_vars

\* an invocation with both bounds requested got no dates and returned 0
C11_Witness ==
    \E id \in HistIds :
        /\ tasks[id].swallowed = "dates"
        /\ tasks[id].state = "SUCCESS"
        /\ tasks[id].created = 0
        /\ tasks[id].start # NoDate
        /\ tasks[id].end # NoDate

----------------------------------------------------------------------------
(* The cache *)

\* C12: after a candle of a ticker has been stored, a read of the ticker's
\* last price or last candle date returns the value derived from the stored
\* candles: the keys of the ticker were deleted by the write.
C12_ReadsAreFresh ==
    \A key \in CacheKeys :
        key[2] \in stocks => ReadValue(key) = Derived(key)

----------------------------------------------------------------------------
(* The price change *)

\* the candles calculate_price_change looks at
WindowRows(ticker, days) ==
    Overlapping(candles, ticker, Today - days - 1, Today + 1)

\* C13: calculate_price_change returns (0, 0) when no candle is in the
\* window or the earliest candle opens at 0; otherwise the value is the close
\* of the latest candle minus the open of the earliest, and the percentage
\* is value / open * 100.  A single candle 100 -> 105 gives (5, 5).
C13_PriceChange ==
    \A tk \in stocks, days \in {DayWindow, YearWindow} :
        LET rows == WindowRows(tk, days)
            res == CalculatePriceChange(candles, tk, days)
            value == res[1]
            num == res[2][1]
            den == res[2][2]
        IN  /\ den # 0
            /\ rows = {} => value = 0 /\ num = 0
            /\ \A e \in rows, l \in rows :
                  ((\A q \in rows : e.begin <= q.begin /\ q.begin <= l.begin))
                     => IF e.open = 0
                        THEN value = 0 /\ num = 0
                        ELSE /\ value = l.close - e.open
                             /\ num * e.open = value * 100 * den
            /\ (\E r \in rows : rows = {r} /\ r.open = 100 /\ r.close = 105)
                  => value = 5 /\ num = 5 * den

\* a task has calculated (5, 5) for the day from the single candle
\* 100 -> 105 of the day's window, and (0, 0) for the year, whose earliest
\* candle opens at 0
C13_Witness ==
    \E id \in IdsOf("pc") :
        /\ tasks[id].at = "save"
        /\ tasks[id].vals[1] = <<5, <<500, 100>>>>
        /\ Cardinality(WindowRows(tasks[id].ticker, DayWindow)) = 1
        /\ Cardinality(WindowRows(tasks[id].ticker, YearWindow)) = 2
        /\ tasks[id].vals[2][1] = 0
        /\ \E r \in WindowRows(tasks[id].ticker, YearWindow) : r.open = 0

----------------------------------------------------------------------------
(* The count a historical fetch returns *)

\* C14: the value load_historical_data_for_ticker returns is the number of
\* Candle rows the invocation has newly inserted; candles ignored as
\* conflicts are not counted.  (A single invocation that ran once on an
\* empty table has inserted every row of the table.)
C14_ReturnsNewRows ==
    \A id \in HistIds :
        (/\ HistIds = {id}
         /\ tasks[id].state = "SUCCESS"
         /\ tasks[id].execs = 1)
            => tasks[id].created = BagCardinality(candles)

----------------------------------------------------------------------------
(* Stored candles are never changed *)

\* C15: a stored Candle row is never changed or deleted.  No step of the
\* pipeline removes a row or alters its fields, and an insert of a batch
\* that holds the same (stock, time_range) with other prices is ignored:
\* every stored row is still there, once, and no second row of its pair is.
C15_CandlesImmutable ==
    /\ [][\A r \in BagToSet(candles) :
            CopiesIn(r, candles') = CopiesIn(r, candles)]_vars
    /\ [](\A rows \in Batches :
            LET after == BulkCreate(candles, rows)
            IN  \A r \in BagToSet(candles) :
                    /\ CopiesIn(r, after) = CopiesIn(r, candles)
                    /\ \A q \in BagToSet(after) :
                          (q.stock = r.stock /\ q.begin = r.begin /\ q.end = r.end)
                              => q = r)

\* an invocation ran once and was delivered the last day's candle in the
\* provider's second revision, after the first revision of it was stored:
\* the stored row still has the first revision's prices
C15_Witness ==
    \E id \in HistIds :
        /\ tasks[id].state = "SUCCESS"
        /\ tasks[id].execs = 1
        /\ tasks[id].swallowed = "none"
        /\ tasks[id].rev = 2
        /\ <<Today - 1, Today>> \in tasks[id].fetched
        /\ \E r \in BagToSet(candles) :
              /\ r.stock = tasks[id].ticker
              /\ r.begin = Today - 1
              /\ r.close = ProviderCandle(Today - 1, 1).close

----------------------------------------------------------------------------
(* The Stock table *)

\* the step in which load_available_stocks returns
Refreshed ==
    /\ AvailId \in DOMAIN tasks
    /\ tasks[AvailId].state # "SUCCESS"
    /\ tasks'[AvailId].state = "SUCCESS"

\* C16: when load_available_stocks succeeds, every ticker of the catalog has
\* its one Stock row, holding the non-key fields of the catalog record
\* (an existing row is updated); the rows of the other tickers are as they
\* were; and no step of the pipeline deletes a Stock row.
C16_CatalogUpsert ==
    /\ [][Refreshed =>
            /\ stocks' = stocks \cup DOMAIN market'
            /\ DOMAIN stockdata' = stocks'
            /\ \A tk \in DOMAIN market' : stockdata'[tk] = market'[tk]
            /\ \A tk \in stocks \ DOMAIN market' : stockdata'[tk] = stockdata[tk]]_vars
    /\ [][stocks \subseteq stocks']_vars

\* a refresh has updated the row of one ticker of the table, created the
\* row of a new ticker and left alone the row of a ticker not in the catalog
C16_Witness ==
    /\ AvailId \in DOMAIN tasks
    /\ tasks[AvailId].state = "SUCCESS"
    /\ \E tk \in run.hist \cap DOMAIN market : stockdata[tk] = NewData
    /\ \E tk \in run.hist \ DOMAIN market : stockdata[tk] = OldData
    /\ \E tk \in DOMAIN market \ run.hist : stockdata[tk] = NewData

\* C17: the ticker of every stored Stock row is in upper case.
C17_TickersUpperCase ==
    \A tk \in stocks : Upper(tk) = tk

----------------------------------------------------------------------------
(* The PriceChange table *)

\* the PriceChange rows of a ticker, with their copies
PriceChangesOf(ticker) ==
    [r \in {q \in BagToSet(pchanges) : q.stock = ticker} |-> CopiesIn(r, pchanges)]

\* C18: however the executions of load_price_changes_for_ticker for one
\* ticker interleave, the ticker never has two PriceChange rows; it has one
\* from the get_or_create of the first execution on; and when the
\* executions have ended, the row holds the day and year values one of the
\* successful executions has calculated.
C18_OnePriceChangeRow ==
    \A tk \in Tickers :
        LET ids == {id \in IdsOf("pc") : tasks[id].ticker = tk}
            done == {id \in ids : tasks[id].state = "SUCCESS"}
        IN  /\ BagCardinality(PriceChangesOf(tk)) <= 1
            /\ (\E id \in ids : tasks[id].at = "save" \/ id \in done)
                  => BagCardinality(PriceChangesOf(tk)) = 1
            /\ (done # {} /\ \A id \in ids : Finished(tasks[id]))
                  => \E id \in done :
                        PriceChangesOf(tk) =
                            SetToBag({[stock |-> tk, vals |-> tasks[id].vals]})

\* two executions for one ticker calculated different values, both have
\* saved, and the one row holds the values of the first of them
C18_Witness ==
    /\ tasks[<<"pc", "1">>].state = "SUCCESS"
    /\ tasks[<<"pc", "2">>].state = "SUCCESS"
    /\ tasks[<<"pc", "1">>].vals # tasks[<<"pc", "2">>].vals
    /\ pchanges = SetToBag({[stock |-> "SBER", vals |-> tasks[<<"pc", "1">>].vals]})

----------------------------------------------------------------------------
(* The window when both bounds are given *)

\* C19: with both bounds given, from_ < end_date <= till and
\* start_date < from_, the window is (from_, end_date).
C19_StartClampedToFrom ==
    \A id \in HistIds :
        LET t == tasks[id]
            from_ == avail[t.ticker][1]
            till == avail[t.ticker][2]
        IN  (/\ t.win # <<NoDate, NoDate>>
             /\ t.start # NoDate /\ t.end # NoDate
             /\ from_ < t.end /\ t.end <= till
             /\ t.start < from_)
                => t.win = <<from_, t.end>>

\* C20: with both bounds given, the end of the window is end_date when
\* from_ < end_date <= till and till otherwise; the start is start_date when
\* from_ <= start_date < that end, and otherwise that end minus the
\* requested span end_date - start_date, so that a window whose start was
\* replaced is as long as the requested one.
C20_BothBoundsWindow ==
    \A id \in HistIds :
        LET t == tasks[id]
            from_ == avail[t.ticker][1]
            till == avail[t.ticker][2]
            effective_end == IF from_ < t.end /\ t.end <= till THEN t.end ELSE till
            kept == from_ <= t.start /\ t.start < effective_end
        IN  (t.win # <<NoDate, NoDate>> /\ t.start # NoDate /\ t.end # NoDate)
                => /\ t.win[2] = effective_end
                   /\ kept => t.win[1] = t.start
                   /\ ~kept => /\ t.win[1] = effective_end - (t.end - t.start)
                               /\ t.win[2] - t.win[1] = t.end - t.start

\* an invocation whose end was clamped to till and whose start was replaced:
\* its window is as long as the requested span and starts before from_
C20_Witness ==
    \E id \in HistIds :
        /\ tasks[id].start # NoDate
        /\ tasks[id].end > avail[tasks[id].ticker][2]
        /\ tasks[id].win[2] = avail[tasks[id].ticker][2]
        /\ tasks[id].win[1] # tasks[id].start
        /\ tasks[id].win[1] # NoDate
        /\ tasks[id].win[2] - tasks[id].win[1] = tasks[id].end - tasks[id].start

----------------------------------------------------------------------------
(* The window when one bound is given, and the requests *)

\* C21: with only start_date given the task computes its window without
\* failing: the start is start_date when from_ <= start_date < till and
\* from_ otherwise, the end is till.
C21_StartOnlyWindow ==
    \A id \in HistIds :
        LET t == tasks[id]
            from_ == avail[t.ticker][1]
            till == avail[t.ticker][2]
        IN  (t.start # NoDate /\ t.end = NoDate)
                => /\ t.exc # "TypeError"
                   /\ t.win # <<NoDate, NoDate>> =>
                         t.win = <<IF from_ <= t.start /\ t.start < till
                                   THEN t.start ELSE from_, till>>

\* C22: every candle request asks for dates of the available range only:
\* the start and the end of each sub-window lie in [from_, till].
C22_RequestsWithinRange ==
    [][\A id \in HistIds :
          (tasks[id].at = "batch" /\ tasks'[id].cur # tasks[id].cur)
             => /\ avail[tasks[id].ticker][1] <= tasks[id].cur
                /\ tasks[id].cur + ChunkDays <= avail[tasks[id].ticker][2]]_vars

\* C23: load_candles requests consecutive sub-windows: the first starts at
\* the window's start, each next one at the end of the one before, each is
\* 365 days long, a request is made only while its start is before the
\* window's end, the fetch that ends without an error has covered the
\* window up to its end, and the loop terminates; a window whose start is
\* not before its end gets no request.
C23_SubWindows ==
    /\ [](\A id \in HistIds :
            LET t == tasks[id]
            IN  /\ t.at = "batch" =>
                      /\ t.cur >= t.win[1]
                      /\ (t.cur - t.win[1]) % ChunkDays = 0
                      /\ t.cur < t.win[2]
                /\ (t.win # <<NoDate, NoDate>> /\ t.win[1] >= t.win[2]) =>
                      /\ t.cur = NoDate
                      /\ t.created = 0
                      /\ t.state = "SUCCESS"
                /\ (t.state = "SUCCESS" /\ t.swallowed = "none"
                        /\ t.win[1] < t.win[2]) =>
                      /\ t.cur >= t.win[2]
                      /\ t.cur - ChunkDays < t.win[2]
                      /\ (t.cur - t.win[1]) % ChunkDays = 0)
    /\ [][\A id \in HistIds :
            (tasks[id].at = "batch" /\ tasks'[id].cur # tasks[id].cur)
                => tasks'[id].cur = tasks[id].cur + ChunkDays]_vars
    /\ (tasks[<<"hist", "1">>].at = "batch") ~> (tasks[<<"hist", "1">>].at # "batch")

\* a fetch of three sub-windows has ended
C23_Witness ==
    \E id \in HistIds :
        /\ tasks[id].state = "SUCCESS"
        /\ tasks[id].swallowed = "none"
        /\ tasks[id].cur = tasks[id].win[1] + 3 * ChunkDays
        /\ tasks[id].win[2] - tasks[id].win[1] > 2 * ChunkDays

----------------------------------------------------------------------------
(* The management command *)

\* a string of the form YYYY-MM-DD naming a day of the calendar
IsoDate(s) == s.sep = "-" /\ s.m >= 1 /\ s.m <= 12 /\ s.d >= 1 /\ s.d <= 31

BadArgs ==
    \/ cmd.start # NoArg /\ ~IsoDate(cmd.start)
    \/ cmd.end # NoArg /\ ~IsoDate(cmd.end)

\* C24: given a start or end date that is not in YYYY-MM-DD format, the
\* command reports the error and returns: no task is dispatched and none
\* runs.
C24_BadDateNoDispatch ==
    (cmd.out # "none" /\ BadArgs)
        => /\ cmd.out = "format error"
           /\ tasks = <<>>
           /\ run = NoRun

\* the command was given a valid start and an end with a month 13
C24_Witness ==
    /\ cmd.out = "format error"
    /\ IsoDate(cmd.start)
    /\ cmd.end # NoArg
    /\ cmd.end.sep = "-"
    /\ cmd.end.m = 13

\* C25: invoked with a valid start and/or end date, the command starts a
\* run: the task accepts the bounds and the run's historical fetches are
\* dispatched with them.
C25_BoundsReachTheRun ==
    (cmd.out # "none" /\ ~BadArgs /\ (cmd.start # NoArg \/ cmd.end # NoArg))
        => /\ cmd.out # "TypeError"
           /\ run.stage # "none"
           /\ AvailId \in DOMAIN tasks

----------------------------------------------------------------------------
(* The window of the price change *)

\* C26: calculate_price_change(stock, days) uses exactly the candles whose
\* time range overlaps [midnight - days, midnight + 1 day]; a candle that
\* ends at or before midnight - days does not influence the result.
C26_TrailingWindow ==
    \A tk \in stocks, days \in {DayWindow, YearWindow} :
        LET inside == {r \in BagToSet(candles) : r.end > Today - days}
        IN  /\ WindowRows(tk, days) = Overlapping(candles, tk, Today - days, Today + 1)
            /\ CalculatePriceChange(candles, tk, days)
                  = CalculatePriceChange(SetToBag(inside), tk, days)

----------------------------------------------------------------------------
(* Failures inside load_candles and malformed records *)

\* C27: when load_candles fails while it produces a sub-window, the
\* sequence ends without raising: the task ends as a success with the count
\* of the batches it has got, no further sub-window is requested, and the
\* candles of those batches stay stored.
C27_FailureEndsSequence ==
    /\ [](\A id \in HistIds :
            tasks[id].swallowed = "candles" =>
                /\ tasks[id].state = "SUCCESS"
                /\ tasks[id].exc = "none"
                /\ ~tasks[id].queued
                /\ tasks[id].at = "-")
    /\ [][\A id \in HistIds :
            (tasks'[id].swallowed = "candles" /\ tasks[id].swallowed # "candles")
                => /\ candles' = candles
                   /\ tasks'[id].created = tasks[id].created
                   /\ tasks'[id].cur = tasks[id].cur
                   /\ tasks'[id].fetched = tasks[id].fetched
                   /\ tasks'[id].retries = tasks[id].retries]_vars
    /\ [][\A id \in HistIds :
            tasks[id].swallowed = "candles" => tasks'[id] = tasks[id]]_vars

\* the second sub-window failed inside load_candles: the task has returned
\* the count of the first, whose candles are stored
C27_Witness ==
    \E id \in HistIds :
        /\ tasks[id].swallowed = "candles"
        /\ tasks[id].state = "SUCCESS"
        /\ tasks[id].cur = tasks[id].win[1] + ChunkDays
        /\ tasks[id].created > 0
        /\ BagCardinality(candles) = tasks[id].created

\* the step in which an execution of the task raises a ValidationError
RaisesInvalid(id) ==
    /\ id \in DOMAIN tasks
    /\ tasks'[id].exc = "ValidationError"
    /\ tasks[id].exc # "ValidationError" \/ tasks'[id].execs # tasks[id].execs

\* C28: a malformed record is not skipped.  When building a Stock of the
\* catalog or a Candle of a batch fails, the task raises: it is sent again
\* or failed, never ended as a success, and the failing execution of
\* load_available_stocks has written no Stock row, the failing batch no
\* Candle row.
C28_MalformedRecordRaises ==
    /\ [](\A id \in IdsOf("avail") \cup IdsOf("hist") :
            tasks[id].exc = "ValidationError" =>
                \/ tasks[id].state = "RETRY" /\ tasks[id].queued
                \/ tasks[id].state = "FAILURE" /\ tasks[id].retries = MaxRetries)
    /\ [][\A id \in IdsOf("avail") \cup IdsOf("hist") :
            RaisesInvalid(id) =>
                /\ stocks' = stocks
                /\ stockdata' = stockdata
                /\ candles' = candles
                /\ tasks'[id].created = tasks[id].created \/ tasks[id].name = "avail"]_vars

\* a Candle of a ticker's batch could not be built: the task waits for
\* its retry and the ticker has no candle, while the other ticker's fetch
\* has stored its own
C28_Witness ==
    \E id \in IdsOf("hist"), other \in IdsOf("hist") :
        /\ tasks[id].exc = "ValidationError"
        /\ tasks[id].state = "RETRY"
        /\ tasks[id].queued
        /\ CandlesOf(candles, tasks[id].ticker) = {}
        /\ tasks[other].state = "SUCCESS"
        /\ CandlesOf(candles, tasks[other].ticker) # {}

----------------------------------------------------------------------------
(* A fetch that is executed again *)

\* the Candle table a fetch of [start_date, end_date) leaves when none of
\* its requests fails
RECURSIVE FetchAll(_, _, _, _, _)
FetchAll(table, ticker, start_date, end_date, rev) ==
    IF start_date < end_date
    THEN FetchAll(BulkCreate(table,
                      CandleRows(ticker,
                          CandlesFrom(start_date, start_date + ChunkDays, rev))),
                  ticker, start_date + ChunkDays, end_date, rev)
    ELSE table

\* C29: a fetch that failed after it had stored some batches, was executed
\* again and succeeded against the same provider data leaves the Candle
\* rows a single execution without a failure leaves.
C29_ReexecutionSafe ==
    \A id \in HistIds :
        LET t == tasks[id]
        IN  (/\ HistIds = {id}
             /\ t.state = "SUCCESS"
             /\ t.swallowed = "none"
             /\ t.win # <<NoDate, NoDate>>
             /\ prov = 1)
                => candles = FetchAll(EmptyBag, t.ticker, t.win[1], t.win[2], 1)

\* the second execution has succeeded; some rows of the table were stored
\* by the first, which failed after its first sub-window
C29_Witness ==
    \E id \in HistIds :
        /\ HistIds = {id}
        /\ tasks[id].state = "SUCCESS"
        /\ tasks[id].swallowed = "none"
        /\ tasks[id].execs = 2
        /\ prov = 1
        /\ BagCardinality(candles) > tasks[id].created - tasks[id].ignored

----------------------------------------------------------------------------
(* Cached reads over an unchanged Candle table *)

\* the close (last_price) or the upper bound (last_candle_date) of row r
ValueOf(key, r) == IF key[1] = "last_price" THEN r.close ELSE r.end

\* the rows of the key's ticker no other row of the ticker is newer than
NewestRows(key) ==
    {r \in BagToSet(candles) :
        /\ r.stock = key[2]
        /\ \A q \in BagToSet(candles) : q.stock = key[2] => q.begin <= r.begin}

\* C30: with no cached entry a read returns the close / the upper bound of
\* the ticker's newest candle, None when it has no candle, and the value it
\* stores under the key is that value; over steps that do not write the
\* Candle table, a read that agreed with the stored candles still agrees,
\* whether it is served from the cache or computed.
C30_CacheTransparent ==
    /\ [](\A key \in CacheKeys :
            (key[2] \in stocks /\ cache[key] = None) =>
                IF NewestRows(key) = {} THEN ReadValue(key) = None
                ELSE \E r \in NewestRows(key) : ReadValue(key) = ValueOf(key, r))
    /\ [][\A key \in CacheKeys :
            /\ (cache[key] = None /\ cache'[key] # None) =>
                  /\ candles' = candles
                  /\ \E r \in NewestRows(key) : cache'[key] = ValueOf(key, r)
            /\ (ReadValue(key) = Derived(key) /\ candles' = candles) =>
                  ReadValue(key)' = Derived(key)']_vars

\* both keys of a ticker with more than one stored candle are served from
\* the cache and hold the newest candle's values
C30_Witness ==
    /\ Cardinality(CandlesOf(candles, "SBER")) > 1
    /\ \A key \in CacheKeys :
          key[2] = "SBER" =>
              /\ cache[key] # None
              /\ \E r \in NewestRows(key) : cache[key] = ValueOf(key, r)

====
